---------------------------- MODULE Spec2Model ----------------------------
(***************************************************************************)
(* Model of the per-file analysis pipeline of the CDR / mobile-money       *)
(* analyzers (modules/mtn_cdr_analyzer.py, airteltigo_cash_analyzer.py,    *)
(* mobile_money_analyzer.py, airteltigo_cdr_analyzer.py): one analyzer     *)
(* window (the interface thread), the AnalysisThread workers it starts,    *)
(* and the queue of signal deliveries from the workers to the window.      *)
(***************************************************************************)
EXTENDS Integers, Sequences, FiniteSets, TLC

VARIABLES
    kind,             \* which analyzer class this window is an instance of
    geocoder,         \* how the reverse-geocoding service answers a request
    cleaner,          \* the CDR File Cleaner page and the files it wrote
    recent_files,     \* self.recent_files of the main window
    added,            \* the paths add_recent_file was called with, in order
    left_running,     \* history: the runs a back_to_home reset found running
    files,            \* the files the user can pick in the Open File dialog
    filename,         \* self.filename
    df,               \* self.df of the window
    analysis_page,    \* hasattr(self, 'analysis_page')
    analysis_thread,  \* self.analysis_thread: 0 is None, else index in threads
    threads,          \* every AnalysisThread constructed so far
    queue,            \* posted events waiting in the interface thread's loop
    visualizations,   \* self.visualizations of the window (its keys)
    insights,         \* self.insights of the window
    tree,             \* rows of self.tree
    tree_run,         \* the run whose results fill self.tree (0: none)
    export_enabled,   \* self.export_button.isEnabled()
    status_label,     \* self.status_label.text()
    progress_bar,     \* self.progress_bar.value()
    message,          \* the last QMessageBox shown by a handler
    widgets_deleted,  \* the children of analysis_page were deleted
    viz_stretch       \* viz_layout ends with the spacer addStretch() added

vars == <<kind, geocoder, cleaner, recent_files, added, left_running,
          files, filename, df, analysis_page, analysis_thread,
          threads,
          queue, visualizations, insights, tree, tree_run, export_enabled,
          status_label, progress_bar, message, widgets_deleted, viz_stretch>>

-----------------------------------------------------------------------------
(* Bounds of the model *)

\* AnalysisThread objects constructed per window
MaxRuns == 2
\* rows of a generated AirtelTigo Cash table
MaxRows == 2
\* rendering calls allowed to raise within one run
MaxRenderFailures == 1
\* posted events waiting while start_analysis is invoked again
MaxQueue == 2
\* files picked in the cleaner's dialog
MaxSelections == 2
\* calls of add_recent_file
MaxAdds == 8

-----------------------------------------------------------------------------
(* Column names *)

Kinds == {"MTN_CDR", "AT_CASH", "MOMO", "AT_CDR"}

\* A header is a sequence of tokens; WS is a run of whitespace.
WS == " "

Name(s) == <<s>>

Padded(s) == <<WS, s, WS>>

RECURSIVE LStrip(_)
LStrip(h) == IF h # <<>> /\ Head(h) = WS THEN LStrip(Tail(h)) ELSE h

RECURSIVE RStrip(_)
RStrip(h) ==
    IF h # <<>> /\ h[Len(h)] = WS THEN RStrip(SubSeq(h, 1, Len(h) - 1)) ELSE h

\* str.strip()
Strip(h) == RStrip(LStrip(h))

\* str.upper() on one token
UpperTok(t) ==
    CASE t = "transaction type" -> "TRANSACTION TYPE"
      [] t = "from amount"      -> "FROM AMOUNT"
      [] t = "Paid In"          -> "PAID IN"
      [] t = "calling_no"       -> "CALLING_NO"
      [] OTHER                  -> t

\* str.upper()
Upper(h) == [i \in 1..Len(h) |-> UpperTok(h[i])]

\* the normalisation load_file applies to each column name
NormalizeColumn(k, h) ==
    CASE k = "MTN_CDR" -> h
      [] k = "AT_CASH" -> Strip(h)
      [] k = "MOMO"    -> Upper(Strip(h))
      [] k = "AT_CDR"  -> Strip(h)

\* required_columns of each load_file, in list order
RequiredColumns(k) ==
    CASE k = "MTN_CDR" -> <<"calling_no", "called_no", "duration",
                            "event_date_time", "latitude", "longitude",
                            "azimuth">>
      [] k = "AT_CASH" -> <<"Paid In", "Withdrawn", "Balance",
                            "Opposite Party">>
      [] k = "MOMO"    -> <<"TRANSACTION TYPE", "FROM AMOUNT">>
      [] k = "AT_CDR"  -> <<"Owner Number", "Outgoing", "Incoming",
                            "Duration", "Call Type", "Event Date & Time",
                            "Latitude", "Longitude">>

\* a check that stops at the first required column it finds absent
SelectFirstMissing(req, cols) ==
    LET absent == {i \in DOMAIN req : Name(req[i]) \notin cols}
    IN  IF absent = {} THEN <<>>
        ELSE <<req[CHOOSE i \in absent : \A j \in absent : i <= j]>>

\* [x for x in s if P(x)], order kept
RECURSIVE SelectMissing(_, _)
SelectMissing(req, cols) ==
    IF req = <<>> THEN <<>>
    ELSE (IF Name(Head(req)) \in cols THEN <<>> ELSE <<Head(req)>>)
         \o SelectMissing(Tail(req), cols)

\* missing_columns = [col for col in required_columns if col not in df.columns]
MissingColumns(k, cols) == SelectMissing(RequiredColumns(k), cols)

-----------------------------------------------------------------------------
(* Cells, rows and tables *)

\* a cell of a numeric column as read from the file
Num(n)    == [t |-> "num", v |-> n]
NumStr(n) == [t |-> "numstr", v |-> n]
Text      == [t |-> "text", v |-> 0]
Blank     == [t |-> "nan", v |-> 0]

\* pd.to_numeric(col, errors='coerce') on one cell, without the fillna(0)
ToNumericOrNaN(c) == IF c.t \in {"num", "numstr"} THEN Num(c.v) ELSE Blank

\* pd.to_numeric(col, errors='coerce').fillna(0) on one cell
ToNumeric(c) == IF c.t \in {"num", "numstr"} THEN Num(c.v) ELSE Num(0)

\* One record of a table, with the columns the runs compute on: the numeric
\* cells of AirtelTigo Cash, the categorical column a top-N breakdown counts
\* (party; "nan" is a missing entry), the caller, the call type and duration,
\* the FROM AMOUNT cell of Mobile Money, the hour of the timestamp and the
\* cell site (latitude, longitude, azimuth).
BaseRow ==
    [paid_in |-> Num(100), withdrawn |-> Num(0), balance |-> Num(100),
     party |-> "A", calling |-> "X", call_type |-> "Voice", duration |-> 10,
     amount |-> Num(100), hour |-> 9, lat |-> 5, lon |-> 0, azimuth |-> 0]

Row(p, w) == [BaseRow EXCEPT !.paid_in = p, !.withdrawn = w]

NoDF == [file |-> "None", columns |-> {}, rows |-> <<>>, timeok |-> FALSE]

File(n, r, hs, rs, tk) ==
    [name |-> n, readable |-> r, headers |-> hs, rows |-> rs, timeok |-> tk]

Headers(names) == {Name(s) : s \in names}

Range(s) == {s[i] : i \in 1..Len(s)}

-----------------------------------------------------------------------------
(* The files of the Open File dialog *)

OptionalColumns(k) ==
    CASE k = "MTN_CDR" -> {"imei"}
      [] k = "AT_CASH" -> {"Transaction Status"}
      [] k = "MOMO"    -> {"FROM ACCOUNT", "FROM ACCOUNT NAME",
                           "FROM PHONE NUMBER", "TO ACCOUNT",
                           "TO ACCOUNT NAME", "TO PHONE NUMBER"}
      [] k = "AT_CDR"  -> {"IMEI", "IMSI", "Cell Details"}

\* the timestamp column the cash analyzers test for before the time step
TimeColumn(k) == IF k = "AT_CASH" THEN "Completion Time" ELSE "DATE"

CashKinds == {"AT_CASH", "MOMO"}

OneRow == <<Row(Num(100), Num(0))>>

\* every column the run reads, timestamps parseable
FullFile(k) ==
    File("full.xlsx", TRUE,
         Headers(Range(RequiredColumns(k)) \cup OptionalColumns(k)
                 \cup (IF k \in CashKinds THEN {TimeColumn(k)} ELSE {})),
         OneRow, TRUE)

\* only the required columns
MinimalFile(k) ==
    File("minimal.xlsx", TRUE, Headers(Range(RequiredColumns(k))), OneRow, TRUE)

\* every column, but the timestamps cannot be parsed
BadTimeFile(k) == [FullFile(k) EXCEPT !.name = "badtime.xlsx", !.timeok = FALSE]

\* the required columns without the second one and the last one
RejectedFile(k) ==
    File("rejected.xlsx", TRUE,
         Headers(Range(RequiredColumns(k))
                 \ {RequiredColumns(k)[2],
                    RequiredColumns(k)[Len(RequiredColumns(k))]}),
         OneRow, TRUE)

\* the headers of the full file, each surrounded by whitespace
PaddedFile(k) ==
    File("padded.xlsx", TRUE,
         {Padded(h[1]) : h \in FullFile(k).headers}, OneRow, TRUE)

\* a file pd.read_excel / pd.read_csv raises on
UnreadableFile == File("unreadable.xlsx", FALSE, {}, <<>>, FALSE)

\* the files of the dialog in the window-level specifications
UIFiles(k) == {FullFile(k), MinimalFile(k), RejectedFile(k), UnreadableFile}

\* a readable file for every set of required columns, bare or padded
ValidationFiles(k) ==
    { File("columns.xlsx", TRUE,
           {IF pad THEN Padded(c) ELSE Name(c) :
                c \in present \cup OptionalColumns(k)},
           OneRow, TRUE) :
        present \in SUBSET Range(RequiredColumns(k)), pad \in BOOLEAN }

\* the rows an AirtelTigo Cash export is built from
CashRowKinds ==
    { Row(Num(100), Num(0)), Row(Num(0), Num(50)), Row(Num(25), Num(50)),
      [Row(Text, Blank) EXCEPT !.balance = NumStr(7)],
      [Row(NumStr(30), Num(0)) EXCEPT !.balance = Text] }

RECURSIVE SeqsUpTo(_, _)
\* the sequences over S of length at most n
SeqsUpTo(S, n) ==
    IF n = 0 THEN {<<>>}
    ELSE LET shorter == SeqsUpTo(S, n - 1)
         IN  shorter \cup {Append(q, x) : q \in shorter, x \in S}

\* 60 rows with Paid In = 100 followed by 40 rows with Withdrawn = 50
ScenarioRows ==
    [i \in 1..100 |->
        IF i <= 60 THEN Row(Num(100), Num(0)) ELSE Row(Num(0), Num(50))]

\* the records an AirtelTigo CDR export is built from
CallRowKinds ==
    { [BaseRow EXCEPT !.call_type = "SMS", !.duration = 0],
      [BaseRow EXCEPT !.call_type = "SMS", !.duration = 7],
      [BaseRow EXCEPT !.call_type = "Voice", !.duration = 10],
      [BaseRow EXCEPT !.call_type = "Voice", !.duration = 25] }

\* the records a Mobile Money export is built from
AmountRowKinds ==
    { [BaseRow EXCEPT !.amount = Num(100)],
      [BaseRow EXCEPT !.amount = Num(25)],
      [BaseRow EXCEPT !.amount = Blank] }

\* the last hour of Night and of Afternoon, the first of Morning and of Evening
BoundaryHours == {5, 6, 17, 18}

WithHour(h) == [BaseRow EXCEPT !.hour = h]

\* tables by the hour of their records: up to MaxRows records at boundary
\* hours, one record at each hour of the day, and the hours 5, 6, 23
HourRows ==
    SeqsUpTo({WithHour(h) : h \in BoundaryHours}, MaxRows)
    \cup {<<WithHour(h)>> : h \in 0..23}
    \cup {<<WithHour(5), WithHour(6), WithHour(23)>>}

\* the full file of analyzer k with each of the row sequences
FilesWithRows(k, n, rowseqs) ==
    { [FullFile(k) EXCEPT !.name = n, !.rows = rs] : rs \in rowseqs }

CallFiles == FilesWithRows("AT_CDR", "calls.xlsx",
                           SeqsUpTo(CallRowKinds, MaxRows))

AmountFiles == FilesWithRows("MOMO", "amounts.xlsx",
                             SeqsUpTo(AmountRowKinds, MaxRows))

HourFiles(k) == FilesWithRows(k, "hours.xlsx", HourRows)

WithSite(lat, lon, az) ==
    [BaseRow EXCEPT !.lat = lat, !.lon = lon, !.azimuth = az]

\* tables by the cell sites of their records: up to MaxRows records from two
\* coordinate pairs, and a table in which one pair is served by three sectors
SiteRows ==
    SeqsUpTo({WithSite(5, 0, 0), WithSite(5, 0, 120), WithSite(6, 1, 0)},
             MaxRows)
    \cup { << WithSite(5, 0, 0), WithSite(5, 0, 120), WithSite(5, 0, 240),
              WithSite(6, 1, 0), WithSite(6, 1, 0) >> }

SiteFiles(k) == FilesWithRows(k, "sites.xlsx", SiteRows)

WithCall(a, b) == [BaseRow EXCEPT !.calling = a, !.party = b]

\* twenty-one numbers
ManyNumbers ==
    <<"N01", "N02", "N03", "N04", "N05", "N06", "N07", "N08", "N09", "N10",
      "N11", "N12", "N13", "N14", "N15", "N16", "N17", "N18", "N19", "N20",
      "N21">>

\* tables by who called whom: up to MaxRows calls among two numbers, and a
\* table of twenty numbers called twice by X and one called once by Y
CallPairRows ==
    SeqsUpTo({WithCall("A", "B"), WithCall("B", "A"), WithCall("nan", "B")},
             MaxRows)
    \cup { [i \in 1..41 |->
              IF i = 41 THEN WithCall("Y", ManyNumbers[21])
              ELSE WithCall("X", ManyNumbers[((i - 1) % 20) + 1])] }

CallPairFiles(k) == FilesWithRows(k, "pairs.xlsx", CallPairRows)

WithParty(c) == [BaseRow EXCEPT !.party = c]

RECURSIVE Parties(_)
Parties(s) == IF s = <<>> THEN <<>>
              ELSE <<WithParty(Head(s))>> \o Parties(Tail(s))

\* tables by the entries of the counted column: up to MaxRows entries, some
\* missing, and two tables with seven categories of different frequency
PartyRows ==
    SeqsUpTo({WithParty(c) : c \in {"A", "B", "nan"}}, MaxRows)
    \cup { Parties(<<"A", "B", "B", "C", "D", "C", "E", "F", "C", "G", "G",
                     "G", "G">>),
           Parties(<<"A", "nan", "B", "C", "D", "E", "F", "F", "nan", "G">>) }

PartyFiles(k) == FilesWithRows(k, "parties.xlsx", PartyRows)

CashFiles ==
    { [FullFile("AT_CASH") EXCEPT !.name = "cash.xlsx", !.rows = rs] :
        rs \in SeqsUpTo(CashRowKinds, MaxRows) }
    \cup { [f EXCEPT !.rows = ScenarioRows] :
             f \in {FullFile("AT_CASH"), MinimalFile("AT_CASH")} }

\* the files of the one-file specification
InputFiles(k) ==
    ValidationFiles(k) \cup {BadTimeFile(k), MinimalFile(k), UnreadableFile}
    \cup PartyFiles(k)
    \cup (CASE k = "AT_CASH" -> CashFiles
            [] k = "AT_CDR"  -> CallFiles \cup HourFiles(k) \cup SiteFiles(k)
            [] k = "MOMO"    -> AmountFiles
            [] k = "MTN_CDR" -> HourFiles(k) \cup SiteFiles(k)
                                   \cup CallPairFiles(k))

-----------------------------------------------------------------------------
(* AnalysisThread.run as a list of steps *)

\* a total_steps that is the number of steps the run counts
CountedSteps(k) ==
    CASE k = "MTN_CDR" -> 4
      [] k = "AT_CDR"  -> 10
      [] k = "AT_CASH" -> 5
      [] k = "MOMO"    -> 6

\* total_steps of each run
TotalSteps(k) == IF k \in {"MTN_CDR", "AT_CDR"} THEN 15 ELSE 10

\* int(current_step / total_steps) * 100
PercentOfWhole(step, total) == (step \div total) * 100

\* int(current_step / total_steps * 100)
Percent(step, total) == (100 * step) \div total

\* One step of run: what it reads (a missing column raises KeyError), whether
\* it needs a row or parseable timestamps, the result labels, artifact keys
\* and insights it adds, and the step an enclosing try resumes at (0: the
\* exception reaches the handler of run).
Step(o, cols, data, labels, keys, ins, catch) ==
    [op |-> o, cols |-> cols, data |-> data, labels |-> labels, keys |-> keys,
     ins |-> ins, catch |-> catch]

CheckDf       == Step("check_df", {}, "none", <<>>, {}, <<>>, 0)
Progress0     == Step("progress0", {}, "none", <<>>, {}, <<>>, 0)
Progress      == Step("progress", {}, "none", <<>>, {}, <<>>, 0)
Complete      == Step("complete", {}, "none", <<>>, {}, <<>>, 0)
Return        == Step("return", {}, "none", <<>>, {}, <<>>, 0)
Agg(cols, data, labels) == Step("agg", cols, data, labels, {}, <<>>, 0)
Totals(cols)  == Step("totals", cols, "none", <<>>, {}, <<>>, 0)
Render(cols, keys) == Step("render", cols, "none", <<>>, keys, <<>>, 0)
Insight(data, ins) == Step("insight", {}, data, <<>>, {}, ins, 0)
ResetInsights(ins) == Step("reset_insights", {}, "none", <<>>, {}, ins, 0)
IfCol(col, else) == Step("if_col", {col}, "none", <<>>, {}, <<>>, else)
\* a step outside every inner try
Unguarded(s, catch) == s

Try(s, catch) == [s EXCEPT !.catch = catch]

\* mtn_cdr_analyzer.py, AnalysisThread.run
MTNProgram ==
    << CheckDf,
       Agg({"calling_no", "called_no", "imei"}, "none", <<>>),
       Progress0,
       Agg({"calling_no", "called_no", "duration", "event_date_time",
            "latitude", "longitude"}, "rows",
           <<"Total Calls", "Unique Callers", "Total Call Duration (sec)",
             "Average Call Duration (sec)", "Top 5 Contacts">>),
       Progress,
       Agg({"imei"}, "none", <<"Top 5 IMEIs">>),
       Progress,
       Agg({"event_date_time", "latitude", "longitude"}, "time", <<>>),
       Progress,
       Render({"hour", "day_of_week"}, {"hourly", "daily"}),
       Render({"latitude", "longitude"}, {"locations"}),
       Render({"latitude", "longitude", "azimuth", "period"}, {"map"}),
       Render({"calling_no", "called_no"}, {"network"}),
       Render({"duration", "period", "called_no"}, {"stats"}),
       Progress,
       Agg({}, "none", <<"Last Call Information",
                         "Most Frequent Locations by Time Period">>),
       ResetInsights(<<"Peak calling hour", "Most used device",
                       "Average call duration", "Most contacted number",
                       "Last call", "Most frequent period location">>),
       Complete,
       Return >>

\* airteltigo_cash_analyzer.py, AnalysisThread.run
ATCashProgram ==
    << CheckDf,
       Progress0,
       Totals({"Paid In", "Withdrawn"}),
       Progress,
       Agg({"Transaction Status"}, "none", <<"Transaction Status">>),
       Render({}, {"transaction_status"}),
       Insight("none", <<"Transaction status">>),
       Progress,
       Agg({"Opposite Party"}, "none", <<"Top 5 Counterparties">>),
       Render({}, {"top_parties"}),
       Insight("cats", <<"Most frequent counterparty">>),
       Progress,
       Render({"Paid In", "Withdrawn"}, {"amount_dist"}),
       Insight("none", <<"Average transaction amount">>),
       Progress,
       IfCol("Completion Time", 22),
       Try(Agg({"Completion Time"}, "time", <<>>), 22),
       Try(Render({"HOUR"}, {"hourly"}), 22),
       Try(Insight("none", <<"Peak transaction hour">>), 22),
       Try(Render({"DAY_OF_WEEK"}, {"daily"}), 22),
       Try(Insight("none", <<"Most active day">>), 22),
       Progress,
       Complete,
       Return >>

\* mobile_money_analyzer.py, AnalysisThread.run
MoMoProgram ==
    << CheckDf,
       Progress0,
       Agg({"TRANSACTION TYPE", "FROM AMOUNT"}, "none",
           <<"Total Transactions", "Total Income", "Total Expenses",
             "Net Balance", "Average Transaction Amount">>),
       Progress,
       Agg({"TRANSACTION TYPE"}, "none", <<"Transaction Types">>),
       Render({}, {"transaction_types"}),
       Insight("none", <<"Transaction types">>),
       Progress,
       Agg({"FROM ACCOUNT", "FROM ACCOUNT NAME", "FROM PHONE NUMBER"}, "none",
           <<"Top Senders">>),
       Render({}, {"top_senders"}),
       Insight("cats", <<"Top sender">>),
       Progress,
       Agg({"TO ACCOUNT", "TO ACCOUNT NAME", "TO PHONE NUMBER"}, "none",
           <<"Top Receivers">>),
       Render({}, {"top_receivers"}),
       Insight("cats", <<"Top receiver">>),
       Progress,
       Render({"FROM AMOUNT"}, {"amount_dist"}),
       Insight("none", <<"Average transaction amount">>),
       Progress,
       IfCol("DATE", 26),
       Try(Agg({"DATE"}, "time", <<>>), 26),
       Try(Render({"HOUR"}, {"hourly"}), 26),
       Try(Insight("none", <<"Peak transaction hour">>), 26),
       Try(Render({"DAY_OF_WEEK"}, {"daily"}), 26),
       Try(Insight("none", <<"Most active day">>), 26),
       Progress,
       Complete,
       Return >>

\* airteltigo_cdr_analyzer.py, AnalysisThread.run
ATCDRProgram ==
    << CheckDf,
       Progress0,
       Agg({"Outgoing", "Incoming", "Owner Number", "Call Type", "Duration"},
           "none",
           <<"Total Records", "Unique Phone Numbers",
             "Total Call Duration (sec)", "Average Call Duration (sec)",
             "Top Outgoing Contacts", "Top Incoming Contacts">>),
       Progress,
       Agg({"IMEI", "IMSI", "Cell Details"}, "none",
           <<"Unique IMEIs", "IMEI Frequency Analysis", "Unique IMSIs",
             "Most Used Cell Towers">>),
       Progress,
       Agg({"Latitude", "Longitude"}, "none",
           <<"Geolocation Frequency Analysis">>),
       Progress,
       Agg({"Event Date & Time"}, "timerows",
           <<"Most Active Period", "Most Active Day">>),
       Progress,
       Render({"Call Type"}, {"call_type"}),
       Insight("none", <<"Call types">>),
       Progress,
       Render({"Call Type", "Duration"}, {"duration"}),
       Insight("none", <<"Average call duration">>),
       Progress,
       Render({"Latitude", "Longitude"}, {"geolocation"}),
       Insight("none", <<"Most frequent location">>),
       Progress,
       Render({"Hour", "DayOfWeek"}, {"hourly", "daily"}),
       Insight("none", <<"Peak calling hour", "Most active day">>),
       Progress,
       Render({}, {"devices"}),
       Insight("cats", <<"Top device IMEI">>),
       Progress,
       Render({}, {"contacts"}),
       Insight("rows", <<"Most frequent contact">>),
       Progress,
       Agg({"Call Type", "Event Date & Time", "Latitude", "Longitude",
            "Cell Details"}, "rows",
           <<"Last Record Type", "Last Record Time", "Last Location",
             "Last Cell Tower">>),
       Render({"Latitude", "Longitude", "Cell Details"}, {"map"}),
       Complete,
       Return >>

Program(k) ==
    CASE k = "MTN_CDR" -> MTNProgram
      [] k = "AT_CASH" -> ATCashProgram
      [] k = "MOMO"    -> MoMoProgram
      [] k = "AT_CDR"  -> ATCDRProgram

\* the columns the time step derives and adds to the table
DerivedColumns(k) ==
    CASE k = "MTN_CDR" -> {"hour", "day_of_week", "period"}
      [] k = "AT_CASH" -> {"DATE", "HOUR", "DAY_OF_WEEK"}
      [] k = "MOMO"    -> {"HOUR", "DAY_OF_WEEK"}
      [] k = "AT_CDR"  -> {"Hour", "DayOfWeek", "Period"}

-----------------------------------------------------------------------------
(* Result values and the Totals step of AirtelTigo Cash *)

Count(n)  == [t |-> "int", v |-> n]
\* an amount printed with two decimals, held in hundredths
Money(h)  == [t |-> "money", v |-> h]
NA        == [t |-> "N/A", v |-> 0]
Header    == [t |-> "header", v |-> 0]

Result(label, value) == [label |-> label, value |-> value]

RECURSIVE SumSeq(_)
SumSeq(s) == IF s = <<>> THEN 0 ELSE Head(s) + SumSeq(Tail(s))

\* the values of one numeric column, in row order
PaidIn(rows)    == [i \in 1..Len(rows) |-> rows[i].paid_in.v]
Withdrawn(rows) == [i \in 1..Len(rows) |-> rows[i].withdrawn.v]

RECURSIVE Positive(_)
\* col[col > 0]
Positive(s) ==
    IF s = <<>> THEN <<>>
    ELSE (IF Head(s) > 0 THEN <<Head(s)>> ELSE <<>>) \o Positive(Tail(s))

\* f"{total / n:.2f}" for n > 0, in hundredths (nearest, ties to even)
FormatMean(total, n) ==
    LET q == (100 * total) \div n
        r == (100 * total) % n
    IN  IF 2 * r < n THEN q
        ELSE IF 2 * r > n THEN q + 1
        ELSE IF q % 2 = 0 THEN q ELSE q + 1

\* a mean that prints an empty selection as 0.00
MeanOrZero(s) ==
    IF s = <<>> THEN Money(0) ELSE Money(FormatMean(SumSeq(s), Len(s)))

\* f"GH₵ {x.mean():.2f}" if not pd.isna(x.mean()) else "N/A"
MeanOrNA(s) ==
    IF s = <<>> THEN NA ELSE Money(FormatMean(SumSeq(s), Len(s)))

\* results 1 to 6 of the AirtelTigo Cash run
CashTotals(rows) ==
    LET total_income   == SumSeq(PaidIn(rows))
        total_expenses == SumSeq(Withdrawn(rows))
    IN  << Result("Total Transactions", Count(Len(rows))),
           Result("Total Deposits", Money(100 * total_income)),
           Result("Total Withdrawals", Money(100 * total_expenses)),
           Result("Net Cash Flow", Money(100 * (total_income - total_expenses))),
           Result("Average Deposit Amount", MeanOrNA(Positive(PaidIn(rows)))),
           Result("Average Withdrawal Amount",
                  MeanOrNA(Positive(Withdrawn(rows)))) >>

-----------------------------------------------------------------------------
(* The aggregation steps of the CDR and Mobile Money runs *)

\* what f"{x:.2f}" prints for a NaN
NaNText == [t |-> "nan", v |-> 0]

\* f"{s.mean():.2f}": the mean of an empty selection is NaN
FormatMeanOf(s) ==
    IF s = <<>> THEN NaNText ELSE Money(FormatMean(SumSeq(s), Len(s)))

\* calls[calls["Call Type"] != "SMS"]["Duration"]
CallDurations(rows) ==
    LET calls == SelectSeq(rows, LAMBDA r : r.call_type # "SMS")
    IN  [i \in 1..Len(calls) |-> calls[i].duration]

\* calls["duration"]
Durations(rows) == [i \in 1..Len(rows) |-> rows[i].duration]

\* the entries of self.df['FROM AMOUNT'] that mean() averages (NaN skipped)
Amounts(rows) ==
    LET given == SelectSeq(rows, LAMBDA r : r.amount.t = "num")
    IN  [i \in 1..Len(given) |-> given[i].amount.v]

\* head(5) of every breakdown
TopN == 5

\* the headers of the top-N breakdowns
TopLabels ==
    {"Top 5 Contacts", "Top 5 IMEIs", "Top 5 Counterparties", "Top Senders",
     "Top Receivers", "Top Outgoing Contacts", "Top Incoming Contacts",
     "IMEI Frequency Analysis", "Most Used Cell Towers"}

\* The column a breakdown counts, as the run sees it: MTN CDR turned the
\* column into strings (a missing entry is the string 'nan'), AirtelTigo CDR
\* filled Outgoing and Incoming with 0; elsewhere "nan" stays missing.
Counted(k, label, rows) ==
    LET col == [i \in DOMAIN rows |-> rows[i].party]
        fill == CASE k = "MTN_CDR" -> "'nan'"
                  [] k = "AT_CDR" /\ label \in {"Top Outgoing Contacts",
                                                "Top Incoming Contacts"} -> "0"
                  [] OTHER -> "nan"
    IN  [i \in DOMAIN col |-> IF col[i] = "nan" THEN fill ELSE col[i]]

\* the categories of a column (missing entries are none)
Categories(col) == {col[i] : i \in DOMAIN col} \ {"nan"}

CountOf(col, c) == Cardinality({i \in DOMAIN col : col[i] = c})

FirstAt(col, c) == CHOOSE i \in DOMAIN col :
                      col[i] = c /\ \A j \in DOMAIN col : col[j] = c => i <= j

Tally(col, c) == [category |-> c, count |-> CountOf(col, c)]

RECURSIVE Unranked(_, _)
\* the categories with their counts in the order of first appearance
Unranked(col, cats) ==
    IF cats = {} THEN <<>>
    ELSE LET first == CHOOSE c \in cats :
                         \A d \in cats : FirstAt(col, c) <= FirstAt(col, d)
         IN  <<Tally(col, first)>> \o Unranked(col, cats \ {first})

RECURSIVE Ranked(_, _)
\* value_counts(): the categories by decreasing count (ties: first appearance)
Ranked(col, cats) ==
    IF cats = {} THEN <<>>
    ELSE LET best == CHOOSE c \in cats : \A d \in cats :
                        \/ CountOf(col, c) > CountOf(col, d)
                        \/ /\ CountOf(col, c) = CountOf(col, d)
                           /\ FirstAt(col, c) <= FirstAt(col, d)
         IN  <<Tally(col, best)>> \o Ranked(col, cats \ {best})

\* the counts without the sort by frequency
ValueCountsUnsorted(col) == Unranked(col, Categories(col))

\* col.value_counts()
ValueCounts(col) == Ranked(col, Categories(col))

\* s.head(n)
HeadN(s, n) == SubSeq(s, 1, IF Len(s) < n THEN Len(s) ELSE n)

\* the rows a breakdown writes under its header
Listing(k, label, rows) ==
    IF label \notin TopLabels THEN <<>>
    ELSE LET top == HeadN(ValueCounts(Counted(k, label, rows)), TopN)
         IN  [i \in DOMAIN top |-> Result(top[i].category, Count(top[i].count))]

\* the value appended to the results under a label of an aggregation step
AggValue(k, label, rows) ==
    CASE k = "AT_CDR" /\ label = "Average Call Duration (sec)" ->
            FormatMeanOf(CallDurations(rows))
      [] k = "MTN_CDR" /\ label = "Average Call Duration (sec)" ->
            FormatMeanOf(Durations(rows))
      [] k = "MOMO" /\ label = "Average Transaction Amount" ->
            FormatMeanOf(Amounts(rows))
      [] label \in {"Total Records", "Total Calls", "Total Transactions"} ->
            Count(Len(rows))
      [] OTHER -> Header

\* the steps that parse the timestamps ("timerows": and need a record)
TimeData == {"time", "timerows"}

CDRKinds == {"MTN_CDR", "AT_CDR"}

Periods == {"Night", "Morning", "Afternoon", "Evening"}

\* a range test that includes its upper bound
get_time_period_closed(hour) ==
    IF 0 <= hour /\ hour <= 6 THEN "Night"
    ELSE IF 6 < hour /\ hour <= 12 THEN "Morning"
    ELSE IF 12 < hour /\ hour <= 18 THEN "Afternoon"
    ELSE "Evening"

\* get_time_period
get_time_period(hour) ==
    IF 0 <= hour /\ hour < 6 THEN "Night"
    ELSE IF 6 <= hour /\ hour < 12 THEN "Morning"
    ELSE IF 12 <= hour /\ hour < 18 THEN "Afternoon"
    ELSE "Evening"

\* calls['period'].value_counts() (0: the label does not occur)
PeriodCounts(rows) ==
    [p \in Periods |->
        Cardinality({i \in DOMAIN rows : get_time_period(rows[i].hour) = p})]

\* before the period column exists
NoPeriodCounts == [p \in Periods |-> 0]

\* the key the map generator groups the records by
SiteKey(by, r) ==
    IF by = "sector" THEN <<r.lat, r.lon, r.azimuth>> ELSE <<r.lat, r.lon>>

\* groupby(keys).size() for one key
GroupSize(by, rows, key) ==
    Cardinality({i \in DOMAIN rows : SiteKey(by, rows[i]) = key})

RECURSIVE LexLeq(_, _)
\* the order groupby lists its keys in
LexLeq(a, b) ==
    \/ a = <<>>
    \/ /\ b # <<>>
       /\ \/ Head(a) < Head(b)
          \/ Head(a) = Head(b) /\ LexLeq(Tail(a), Tail(b))

\* location_counts.loc[location_counts['count'].idxmax()]
HottestGroup(by, rows) ==
    LET keys == {SiteKey(by, rows[i]) : i \in DOMAIN rows}
    IN  CHOOSE g \in keys : \A h \in keys :
            \/ GroupSize(by, rows, g) > GroupSize(by, rows, h)
            \/ /\ GroupSize(by, rows, g) = GroupSize(by, rows, h)
               /\ LexLeq(g, h)

\* folium.Map(location=[lat, lon])
MapCentre(k, rows) ==
    SubSeq(HottestGroup(IF k = "MTN_CDR" THEN "sector" ELSE "pair", rows), 1, 2)

\* for period in ['Night', 'Morning', 'Afternoon', 'Evening']
PeriodOrder == <<"Night", "Morning", "Afternoon", "Evening">>

\* the answers of Nominatim's reverse(): an address, None, or one of the two
\* exceptions get_location_name handles
GeoOutcomes == {"found", "none", "timeout", "unavailable"}

\* f with x mapped to v
Put(f, x, v) == [y \in DOMAIN f \cup {x} |-> IF y = x THEN v ELSE f[y]]

\* the thread after self.get_location_name(p[1], p[2])
get_location_name(th, p) ==
    IF p \in DOMAIN th.geolocation_cache THEN th
    ELSE LET n == IF p \in DOMAIN th.reverse_calls
                  THEN th.reverse_calls[p] ELSE 0
             asked == [th EXCEPT !.reverse_calls = Put(@, p, n + 1)]
         IN  CASE geocoder = "found" ->
                    [asked EXCEPT !.geolocation_cache = Put(@, p, "address")]
               [] geocoder = "none" ->
                    [asked EXCEPT !.geolocation_cache =
                                      Put(@, p, "Unknown Location")]
               [] OTHER -> asked

RECURSIVE LookUp(_, _)
\* the thread after the addresses of the places ps were asked for in turn
LookUp(th, ps) ==
    IF ps = <<>> THEN th
    ELSE LookUp(get_location_name(th, Head(ps)), Tail(ps))

\* the place of calls.iloc[-1]
LastCallSite(rows) == <<SiteKey("pair", rows[Len(rows)])>>

RECURSIVE PeriodSites(_, _)
\* the most frequent place of every period of ps that has records
PeriodSites(rows, ps) ==
    IF ps = <<>> THEN <<>>
    ELSE LET InPeriod(r) == get_time_period(r.hour) = Head(ps)
             period_data == SelectSeq(rows, InPeriod)
         IN  (IF period_data = <<>> THEN <<>>
              ELSE <<HottestGroup("pair", period_data)>>)
             \o PeriodSites(rows, Tail(ps))

RECURSIVE TowerSites(_)
\* the places of the rows of location_counts, in their order
TowerSites(keys) ==
    IF keys = {} THEN <<>>
    ELSE LET g == CHOOSE x \in keys : \A y \in keys : LexLeq(x, y)
         IN  <<SubSeq(g, 1, 2)>> \o TowerSites(keys \ {g})

\* the places a step of the MTN CDR run asks the address of
Lookups(k, s, rows) ==
    CASE k # "MTN_CDR" -> <<>>
      [] s.op = "agg" /\ "Total Calls" \in Range(s.labels) ->
            LastCallSite(rows)
      [] s.op = "agg" /\ s.data \in TimeData ->
            PeriodSites(rows, PeriodOrder)
      [] s.op = "render" /\ "map" \in s.keys ->
            TowerSites({SiteKey("sector", rows[i]) : i \in DOMAIN rows})
              \o <<MapCentre(k, rows)>> \o PeriodSites(rows, PeriodOrder)
      [] OTHER -> <<>>

\* the number of called numbers the network graph keeps
GraphTopN == 20

\* astype(str) of a number: a missing entry becomes the text 'nan'
AsStr(c) == IF c = "nan" THEN "'nan'" ELSE c

\* the calling and the called number of every record, as text
Calls(rows) ==
    [i \in DOMAIN rows |->
        [calling_no |-> AsStr(rows[i].calling), called_no |-> AsStr(rows[i].party)]]

\* calls[calls["called_no"].isin(top_contacts.index)]
FilteredCalls(calls) ==
    LET top == HeadN(ValueCounts([i \in DOMAIN calls |-> calls[i].called_no]),
                     GraphTopN)
        In(c) == \E j \in DOMAIN top : top[j].category = c.called_no
    IN  SelectSeq(calls, In)

\* the numbers of the tables in the order that sorts them as text
NumberOrder ==
    <<"'nan'", "A", "B", "C", "D", "E", "F", "G">> \o ManyNumbers
       \o <<"X", "Y">>

Rank(n) == CHOOSE i \in DOMAIN NumberOrder : NumberOrder[i] = n

\* the order groupby(["calling_no", "called_no"]) lists its groups in
GroupBefore(g, h) ==
    \/ Rank(g[1]) < Rank(h[1])
    \/ Rank(g[1]) = Rank(h[1]) /\ Rank(g[2]) <= Rank(h[2])

\* G.add_edge(u, v, weight=w) on an undirected graph: the edge between u and
\* v gets the weight w, whether or not it was there
AddEdge(weight, u, v, w) ==
    [e \in DOMAIN weight \cup {{u, v}} |-> IF e = {u, v} THEN w ELSE weight[e]]

RECURSIVE AddEdges(_, _, _)
\* the loop over call_counts.iterrows()
AddEdges(weight, groups, fc) ==
    IF groups = {} THEN weight
    ELSE LET g == CHOOSE x \in groups : \A y \in groups : GroupBefore(x, y)
             w == Cardinality({i \in DOMAIN fc :
                                 <<fc[i].calling_no, fc[i].called_no>> = g})
         IN  AddEdges(AddEdge(weight, g[1], g[2], w), groups \ {g}, fc)

NoGraph == [nodes |-> {}, weight |-> [e \in {} |-> 0]]

\* the graph generate_network_graph builds
NetworkGraph(rows) ==
    LET fc == FilteredCalls(Calls(rows))
    IN  [nodes  |-> {fc[i].calling_no : i \in DOMAIN fc}
                       \cup {fc[i].called_no : i \in DOMAIN fc},
         weight |-> AddEdges(NoGraph.weight,
                             {<<fc[i].calling_no, fc[i].called_no>> :
                                 i \in DOMAIN fc}, fc)]

RECURSIVE AggResults(_, _, _)
\* the results an aggregation step with these labels appends
AggResults(k, labels, rows) ==
    IF labels = <<>> THEN <<>>
    ELSE <<Result(Head(labels), AggValue(k, Head(labels), rows))>>
         \o Listing(k, Head(labels), rows)
         \o AggResults(k, Tail(labels), rows)

-----------------------------------------------------------------------------
(* The worker threads *)

\* AnalysisThread.__init__
NewThread(d) ==
    [df |-> d, pc |-> 1, status |-> "running", cancel |-> FALSE,
     current_step |-> 0, results |-> <<>>, visualizations |-> {},
     insights |-> <<>>, raised |-> 0, caught |-> 0, failures |-> 0,
     failed |-> {}, emitted |-> <<>>, period_counts |-> NoPeriodCounts,
     map_centre |-> <<>>,
     graph |-> NoGraph,
     geolocation_cache |-> <<>>, reverse_calls |-> <<>>]

Event(type, run, percent, results, viz, ins) ==
    [type |-> type, run |-> run, percent |-> percent, results |-> results,
     visualizations |-> viz, insights |-> ins]

ProgressEvent(t, pct) == Event("progress", t, pct, <<>>, {}, <<>>)
ErrorEvent(t)         == Event("error", t, 0, <<>>, {}, <<>>)
CompleteEvent(t, th)  ==
    Event("complete", t, 0, th.results, th.visualizations, th.insights)
DeferredDelete        == Event("deferred_delete", 0, 0, <<>>, {}, <<>>)

HasColumn(d, c) == Name(c) \in d.columns

\* does step s of the run raise on table d (fail: the rendering call raises)
Raises(s, d, fail) ==
    \/ s.op # "if_col" /\ \E c \in s.cols : ~HasColumn(d, c)
    \/ s.data \in {"rows", "timerows"} /\ d.rows = <<>>
    \/ s.data = "cats" /\ \A i \in DOMAIN d.rows : d.rows[i].party = "nan"
    \/ s.data \in TimeData /\ ~d.timeok
    \/ s.op = "render" /\ fail

\* a worker that appends the insights of its steps and renders nothing
ApplyWithoutRendering(k, before, s) ==
    IF s.op = "return" THEN [before EXCEPT !.status = "finished"]
    ELSE [before EXCEPT !.insights = @ \o s.ins, !.pc = @ + 1]

\* the thread after step s ran without raising, with the addresses the step
\* asked for
Apply(k, before, s) ==
    LET th == LookUp(before, Lookups(k, s, before.df.rows)) IN
    CASE s.op = "progress" ->
            [th EXCEPT !.current_step = @ + 1, !.pc = @ + 1]
      [] s.op = "agg" ->
            [th EXCEPT !.results =
                           @ \o AggResults(k, s.labels, th.df.rows),
                       !.df.columns =
                           IF s.data \in TimeData
                           THEN @ \cup Headers(DerivedColumns(k)) ELSE @,
                       !.period_counts =
                           IF s.data \in TimeData /\ k \in CDRKinds
                           THEN PeriodCounts(th.df.rows) ELSE @,
                       !.pc = @ + 1]
      [] s.op = "totals" ->
            [th EXCEPT !.results = @ \o CashTotals(th.df.rows), !.pc = @ + 1]
      [] s.op = "render" ->
            [th EXCEPT !.visualizations = @ \cup s.keys,
                       !.map_centre =
                           IF "map" \in s.keys /\ k \in CDRKinds
                           THEN MapCentre(k, th.df.rows) ELSE @,
                       !.graph =
                           IF "network" \in s.keys
                           THEN NetworkGraph(th.df.rows) ELSE @,
                       !.pc = @ + 1]
      [] s.op = "insight" ->
            [th EXCEPT !.insights = @ \o s.ins, !.pc = @ + 1]
      [] s.op = "reset_insights" ->
            [th EXCEPT !.insights = s.ins, !.pc = @ + 1]
      [] s.op = "if_col" ->
            [th EXCEPT !.pc = IF HasColumn(th.df, CHOOSE c \in s.cols : TRUE)
                              THEN @ + 1 ELSE s.catch]
      [] s.op = "return" ->
            [th EXCEPT !.status = "finished"]
      [] OTHER ->
            [th EXCEPT !.pc = @ + 1]

\* the signal step s emits when it ran without raising (<<>>: none)
Emits(k, t, th, s) ==
    CASE s.op = "progress0" ->
            <<ProgressEvent(t, Percent(th.current_step, TotalSteps(k)))>>
      [] s.op = "progress" ->
            <<ProgressEvent(t, Percent(th.current_step + 1, TotalSteps(k)))>>
      [] s.op = "complete" -> <<CompleteEvent(t, th)>>
      [] OTHER -> <<>>

\* a run whose handler reports the exception and goes on with the next step
RunOutcomeContinues(k, t, th, fail) ==
    LET prog == Program(k)
        s    == prog[th.pc]
        ret  == Len(prog)
        failed == [th EXCEPT !.raised = @ + 1,
                             !.failures = IF fail THEN @ + 1 ELSE @,
                             !.failed = IF fail THEN @ \cup s.keys ELSE @]
    IN  IF s.op = "check_df" /\ th.df = NoDF
        THEN <<[th EXCEPT !.pc = ret], <<ErrorEvent(t)>>>>
        ELSE IF Raises(s, th.df, fail)
        THEN IF s.catch # 0
             THEN <<[failed EXCEPT !.caught = @ + 1, !.pc = s.catch], <<>>>>
             ELSE <<[failed EXCEPT !.pc = @ + 1], <<ErrorEvent(t)>>>>
        ELSE <<Apply(k, th, s), Emits(k, t, th, s)>>

\* a run that enters each artifact key before its rendering call
RunOutcomeKeyFirst(k, t, th, fail) ==
    LET prog == Program(k)
        s    == prog[th.pc]
        ret  == Len(prog)
        failed == [th EXCEPT !.raised = @ + 1,
                             !.failures = IF fail THEN @ + 1 ELSE @,
                             !.failed = IF fail THEN @ \cup s.keys ELSE @,
                             !.visualizations = @ \cup s.keys]
    IN  IF s.op = "check_df" /\ th.df = NoDF
        THEN <<[th EXCEPT !.pc = ret], <<ErrorEvent(t)>>>>
        ELSE IF Raises(s, th.df, fail)
        THEN IF s.catch # 0
             THEN <<[failed EXCEPT !.caught = @ + 1, !.pc = s.catch], <<>>>>
             ELSE <<[failed EXCEPT !.pc = ret], <<ErrorEvent(t)>>>>
        ELSE <<Apply(k, th, s), Emits(k, t, th, s)>>

\* One step of AnalysisThread.run of thread t: <<the thread after, emitted>>.
\* raised counts the exceptions raised by steps, caught those an inner
\* try swallowed, failed holds the keys of the rendering calls that raised.
RunOutcome(k, t, th, fail) ==
    LET prog == Program(k)
        s    == prog[th.pc]
        ret  == Len(prog)
        failed == [th EXCEPT !.raised = @ + 1,
                             !.failures = IF fail THEN @ + 1 ELSE @,
                             !.failed = IF fail THEN @ \cup s.keys ELSE @]
    IN  IF s.op = "check_df" /\ th.df = NoDF
        THEN <<[th EXCEPT !.pc = ret], <<ErrorEvent(t)>>>>
        ELSE IF Raises(s, th.df, fail)
        THEN IF s.catch # 0
             THEN <<[failed EXCEPT !.caught = @ + 1, !.pc = s.catch], <<>>>>
             ELSE <<[failed EXCEPT !.pc = ret], <<ErrorEvent(t)>>>>
        ELSE <<Apply(k, th, s), Emits(k, t, th, s)>>

\* what the signal carries when it is recorded as emitted by the run
Emitted(ev) == [type |-> ev.type, percent |-> ev.percent]

RunStep(t, fail) ==
    /\ t \in 1..Len(threads)
    /\ threads[t].status = "running"
    /\ fail => /\ Program(kind)[threads[t].pc].op = "render"
               /\ threads[t].failures < MaxRenderFailures
    /\ LET out == RunOutcome(kind, t, threads[t], fail)
       IN  /\ threads' =
                [threads EXCEPT ![t] =
                    [out[1] EXCEPT !.emitted =
                        @ \o [i \in 1..Len(out[2]) |-> Emitted(out[2][i])]]]
           /\ queue' = queue \o out[2]
    /\ UNCHANGED <<kind, geocoder, cleaner, recent_files, added, left_running,
                   files, filename, df, analysis_page,
                   analysis_thread,
                   visualizations, insights, tree, tree_run, export_enabled,
                   status_label, progress_bar, message, widgets_deleted,
                   viz_stretch>>

\* a worker terminate() was called on stops, at some later moment
Die(t) ==
    /\ t \in 1..Len(threads)
    /\ threads[t].status = "running"
    /\ threads[t].cancel
    /\ threads' = [threads EXCEPT ![t].status = "terminated"]
    /\ UNCHANGED <<kind, geocoder, cleaner, recent_files, added, left_running,
                   files, filename, df, analysis_page,
                   analysis_thread,
                   queue, visualizations, insights, tree, tree_run,
                   export_enabled, status_label, progress_bar, message,
                   widgets_deleted, viz_stretch>>

-----------------------------------------------------------------------------
(* The handlers of the analyzer window *)

HasExportButton(k) == k # "AT_CDR"

Message(icon, text, missing) ==
    [icon |-> icon, text |-> text, missing |-> missing]

NoMessage == Message("none", "", <<>>)

\* the column names of file f after load_file normalised them
LoadedColumns(k, f) == {NormalizeColumn(k, h) : h \in f.headers}

\* the numeric clean-up load_file of AirtelTigo Cash applies to the rows
CoerceRows(k, rows) ==
    IF k = "AT_CASH"
    THEN [i \in 1..Len(rows) |->
            [rows[i] EXCEPT !.paid_in = ToNumeric(@),
                            !.withdrawn = ToNumeric(@),
                            !.balance = ToNumeric(@)]]
    ELSE rows

\* a load_file that leaves self.df alone when it rejects the file
LoadFileKeepsTable(f) ==
    /\ f \in files
    /\ IF ~f.readable
       THEN /\ message' = Message("critical", "Failed to load file", <<>>)
            /\ UNCHANGED <<df, filename, export_enabled>>
       ELSE LET cols    == LoadedColumns(kind, f)
                missing == MissingColumns(kind, cols)
            IN  IF missing # <<>>
                THEN /\ message' = Message("critical",
                                           "Missing required columns", missing)
                     /\ UNCHANGED <<df, filename, export_enabled>>
                ELSE /\ df' = [file |-> f.name, columns |-> cols,
                               rows |-> CoerceRows(kind, f.rows),
                               timeok |-> f.timeok]
                     /\ filename' = f.name
                     /\ export_enabled' =
                           IF HasExportButton(kind) THEN FALSE
                           ELSE export_enabled
                     /\ message' = Message("information",
                                           "File loaded successfully", <<>>)
    /\ UNCHANGED <<kind, geocoder, cleaner, recent_files, added, left_running,
                   files, analysis_page, analysis_thread, threads,
                   queue,
                   visualizations, insights, tree, tree_run, status_label,
                   progress_bar, widgets_deleted, viz_stretch>>

\* load_file, with f the file picked in the dialog
LoadFile(f) ==
    /\ f \in files
    /\ IF ~f.readable
       THEN /\ df' = NoDF
            /\ message' = Message("critical", "Failed to load file", <<>>)
            /\ UNCHANGED <<filename, export_enabled>>
       ELSE LET cols    == LoadedColumns(kind, f)
                missing == MissingColumns(kind, cols)
            IN  IF missing # <<>>
                THEN /\ df' = NoDF
                     /\ message' = Message("critical",
                                           "Missing required columns", missing)
                     /\ UNCHANGED <<filename, export_enabled>>
                ELSE /\ df' = [file |-> f.name, columns |-> cols,
                               rows |-> CoerceRows(kind, f.rows),
                               timeok |-> f.timeok]
                     /\ filename' = f.name
                     /\ export_enabled' =
                           IF HasExportButton(kind) THEN FALSE
                           ELSE export_enabled
                     /\ message' = Message("information",
                                           "File loaded successfully", <<>>)
    /\ UNCHANGED <<kind, geocoder, cleaner, recent_files, added, left_running,
                   files, analysis_page, analysis_thread, threads,
                   queue,
                   visualizations, insights, tree, tree_run, status_label,
                   progress_bar, widgets_deleted, viz_stretch>>

\* threads after start_analysis: terminate() on a running predecessor, then
\* a new AnalysisThread(self.df) is constructed and started
Started(ths, cur, d) ==
    Append(IF cur # 0 /\ ths[cur].status = "running"
           THEN [ths EXCEPT ![cur].cancel = TRUE] ELSE ths,
           NewThread(d))

\* start_analysis
StartAnalysis ==
    /\ threads' = Started(threads, analysis_thread, df)
    /\ analysis_thread' = Len(threads) + 1

\* an Analyze Data that starts the analysis whether or not the page exists
CreateAnalysisPageAgain ==
    /\ df # NoDF
    /\ Len(threads) < MaxRuns
    /\ analysis_page' = TRUE
    /\ status_label' = "Analyzing data... Please wait"
    /\ progress_bar' = 0
    /\ StartAnalysis
    /\ UNCHANGED <<kind, geocoder, cleaner, recent_files, added, left_running,
                   files,
                   filename, df, queue, visualizations, insights, tree,
                   tree_run, export_enabled, message, widgets_deleted,
                   viz_stretch>>

\* create_analysis_page, the handler of Analyze Data
CreateAnalysisPage ==
    /\ IF df = NoDF
       THEN /\ message' = Message("warning", "Please load a file first!", <<>>)
            /\ UNCHANGED <<analysis_page, analysis_thread, threads,
                           status_label, progress_bar>>
       ELSE IF analysis_page
       THEN UNCHANGED <<message, analysis_page, analysis_thread, threads,
                        status_label, progress_bar>>
       ELSE /\ analysis_page' = TRUE
            /\ status_label' = "Analyzing data... Please wait"
            /\ progress_bar' = 0
            /\ StartAnalysis
            /\ UNCHANGED message
    /\ UNCHANGED <<kind, geocoder, cleaner, recent_files, added, left_running,
                   files, filename, df, queue, visualizations,
                   insights,
                   tree, tree_run, export_enabled, widgets_deleted,
                   viz_stretch>>

\* start_analysis called again on a window whose analysis page exists
RestartAnalysis ==
    /\ analysis_page
    /\ Len(threads) < MaxRuns
    /\ StartAnalysis
    /\ UNCHANGED <<kind, geocoder, cleaner, recent_files, added, left_running,
                   files, filename, df, analysis_page, queue,
                   visualizations, insights, tree, tree_run, export_enabled,
                   status_label, progress_bar, message, widgets_deleted,
                   viz_stretch>>

IsRunning(cur) == cur # 0 /\ threads[cur].status = "running"

\* back_to_home; confirmed is the reply to AirtelTigo CDR's question box
BackToHome(confirmed) ==
    /\ confirmed \/ (kind = "AT_CDR" /\ IsRunning(analysis_thread))
    /\ IF ~confirmed
       THEN UNCHANGED <<filename, df, visualizations, insights, queue,
                        widgets_deleted, export_enabled>>
       ELSE /\ filename' = "None"
            /\ df' = NoDF
            /\ visualizations' = {}
            /\ insights' = <<>>
            /\ IF analysis_page /\ widgets_deleted = "no"
               THEN /\ widgets_deleted' = "pending"
                    /\ queue' = Append(queue, DeferredDelete)
               ELSE UNCHANGED <<widgets_deleted, queue>>
            /\ export_enabled' =
                  IF HasExportButton(kind) THEN FALSE ELSE export_enabled
    /\ left_running' =
          IF confirmed /\ IsRunning(analysis_thread)
          THEN left_running \cup {analysis_thread} ELSE left_running
    /\ UNCHANGED <<kind, geocoder, cleaner, recent_files, added,
                   files, analysis_page, analysis_thread, threads,
                   tree,
                   tree_run, status_label, progress_bar, message, viz_stretch>>

\* show_visualizations raises on the spacer a previous call left in viz_layout
StretchRaises(k) == k # "MTN_CDR" /\ viz_stretch

\* populate_transactions of Mobile Money reads self.df.columns
PopulateRaises(k) == k = "MOMO" /\ df = NoDF

\* update_progress_status
UpdateProgressStatus(ev) ==
    /\ IF widgets_deleted = "yes"
       THEN UNCHANGED <<status_label, progress_bar>>
       ELSE /\ status_label' = "progress"
            /\ progress_bar' = ev.percent
    /\ UNCHANGED <<visualizations, insights, tree, tree_run, export_enabled,
                   message, widgets_deleted, viz_stretch>>

\* display_results
DisplayResults(ev) ==
    /\ IF widgets_deleted = "yes"
       THEN UNCHANGED <<tree, tree_run, visualizations, insights, viz_stretch,
                        export_enabled, status_label>>
       ELSE /\ tree' = ev.results
            /\ tree_run' = ev.run
            /\ visualizations' = ev.visualizations
            /\ insights' = ev.insights
            /\ IF StretchRaises(kind)
               THEN UNCHANGED <<viz_stretch, export_enabled, status_label>>
               ELSE /\ viz_stretch' = (kind # "MTN_CDR")
                    /\ IF PopulateRaises(kind)
                       THEN UNCHANGED <<export_enabled, status_label>>
                       ELSE /\ export_enabled' = TRUE
                            /\ status_label' = "Analysis Complete"
    /\ UNCHANGED <<progress_bar, message, widgets_deleted>>

\* show_error
ShowError(ev) ==
    /\ message' = Message("critical", "Analysis failed", <<>>)
    /\ IF widgets_deleted = "yes"
       THEN UNCHANGED <<status_label, progress_bar>>
       ELSE /\ status_label' = "Analysis Failed"
            /\ progress_bar' = 0
    /\ UNCHANGED <<visualizations, insights, tree, tree_run, export_enabled,
                   widgets_deleted, viz_stretch>>

\* the deferred deletion of the widgets clear_content took from the page
DeleteWidgets ==
    /\ widgets_deleted' = "yes"
    /\ UNCHANGED <<visualizations, insights, tree, tree_run, export_enabled,
                   status_label, progress_bar, message, viz_stretch>>

\* the interface thread's event loop delivers the oldest posted event
Deliver ==
    /\ queue # <<>>
    /\ LET ev == Head(queue)
       IN  CASE ev.type = "progress" -> UpdateProgressStatus(ev)
             [] ev.type = "complete" -> DisplayResults(ev)
             [] ev.type = "error"    -> ShowError(ev)
             [] ev.type = "deferred_delete" -> DeleteWidgets
    /\ queue' = Tail(queue)
    /\ UNCHANGED <<kind, geocoder, cleaner, recent_files, added, left_running,
                   files, filename, df, analysis_page,
                   analysis_thread,
                   threads>>

-----------------------------------------------------------------------------
(* The CDR File Cleaner page *)

\* the names the import statements of cdr_cleaner.py bind
CleanerImports ==
    {"os", "pd", "QWidget", "QVBoxLayout", "QHBoxLayout", "QLabel",
     "QPushButton", "QFileDialog", "QMessageBox", "QProgressBar", "QFrame",
     "QStackedWidget", "Qt", "QFont", "QIcon", "QPixmap"}

\* the files the user can pick in the cleaner's dialog: whether pandas can
\* read them as Excel, and the columns of their first sheet
CleanerFiles ==
    { [base |-> b, readable |-> r, columns |-> cols] :
        b \in {"a", "b", "c"}, r \in BOOLEAN,
        cols \in {{"event_date_time", "calling_no"}, {"calling_no"}} }

\* clean_cdr_file(f) on the page c: the page after the call, with the values
\* the progress bar was set to in bar, the return value in success and message
clean_cdr_file(c, f) ==
    LET started == [c EXCEPT !.status_label = "Processing file...",
                             !.visible = TRUE, !.bar = <<10>>]
        Fails(page, text) ==
            [page EXCEPT !.success = FALSE,
                         !.message = Message("critical", text, <<>>),
                         !.visible = FALSE]
        opened  == [started EXCEPT !.bar = @ \o <<30>>]
        read    == [opened EXCEPT !.bar = @ \o <<50>>]
        saved   == [read EXCEPT
                      !.bar = @ \o <<70, 90>>,
                      !.disk = @ \cup {<<f.base, "_cleaned.xlsx">>,
                                        <<f.base, "_cleaned.csv">>}]
    IN  IF "QApplication" \notin CleanerImports
        THEN Fails(started, "name 'QApplication' is not defined")
        ELSE IF ~f.readable
        THEN Fails(opened, "Error processing file")
        ELSE IF "event_date_time" \notin f.columns
        THEN Fails(read, "'event_date_time'")
        ELSE [saved EXCEPT !.bar = @ \o <<100>>,
                           !.success = TRUE,
                           !.message = Message("information",
                                               "Files successfully saved", <<>>),
                           !.visible = FALSE]

\* select_file, with f the file picked in the dialog
select_file(f) ==
    /\ Len(cleaner.selected) < MaxSelections
    /\ LET c == clean_cdr_file(cleaner, f)
       IN  cleaner' =
             [c EXCEPT !.status_label = IF c.success
                                        THEN "File cleaned successfully!"
                                        ELSE "Error cleaning file!",
                       !.selected = Append(@, f)]
    /\ UNCHANGED <<kind, geocoder, recent_files, added, left_running,
                   files, filename, df,
                   analysis_page, analysis_thread, threads, queue,
                   visualizations, insights, tree, tree_run, export_enabled,
                   status_label, progress_bar, message, widgets_deleted,
                   viz_stretch>>

-----------------------------------------------------------------------------
(* The recent files of the main window *)

\* self.max_recent_files
max_recent_files == 5

\* the paths a file dialog of the main window can return
Paths == 1..(max_recent_files + 2)

\* an add_recent_file that lets a path added again stay where it is
add_recent_file_keeping(file_path) ==
    /\ Len(added) < MaxAdds
    /\ file_path <= Cardinality(Range(added)) + 1
    /\ LET inserted == IF file_path \in Range(recent_files) THEN recent_files
                       ELSE <<file_path>> \o recent_files
       IN  recent_files' =
             IF Len(inserted) > max_recent_files
             THEN SubSeq(inserted, 1, max_recent_files) ELSE inserted
    /\ added' = Append(added, file_path)
    /\ UNCHANGED <<kind, geocoder, cleaner, left_running, files, filename, df,
                   analysis_page, analysis_thread, threads, queue,
                   visualizations, insights, tree, tree_run, export_enabled,
                   status_label, progress_bar, message, widgets_deleted,
                   viz_stretch>>

\* add_recent_file(file_path); a path not added before is the next unused one
add_recent_file(file_path) ==
    /\ Len(added) < MaxAdds
    /\ file_path <= Cardinality(Range(added)) + 1
    /\ LET NotIt(x) == x # file_path
           removed  == SelectSeq(recent_files, NotIt)
           inserted == <<file_path>> \o removed
       IN  recent_files' =
             IF Len(inserted) > max_recent_files
             THEN SubSeq(inserted, 1, max_recent_files) ELSE inserted
    /\ added' = Append(added, file_path)
    /\ UNCHANGED <<kind, geocoder, cleaner, left_running, files, filename, df,
                   analysis_page, analysis_thread, threads, queue,
                   visualizations, insights, tree, tree_run, export_enabled,
                   status_label, progress_bar, message, widgets_deleted,
                   viz_stretch>>

-----------------------------------------------------------------------------
(* Specifications *)

\* MTNCDRAnalyzer.__init__ and its counterparts
InitWindow ==
    /\ filename = "None"
    /\ df = NoDF
    /\ analysis_page = FALSE
    /\ analysis_thread = 0
    /\ threads = <<>>
    /\ queue = <<>>
    /\ visualizations = {}
    /\ insights = <<>>
    /\ tree = <<>>
    /\ tree_run = 0
    /\ export_enabled = ~HasExportButton(kind)
    /\ status_label = ""
    /\ progress_bar = 0
    /\ message = NoMessage
    /\ widgets_deleted = "no"
    /\ viz_stretch = FALSE
    /\ cleaner = [status_label |-> "Ready to process files", visible |-> FALSE,
                  bar |-> <<0>>, success |-> FALSE, message |-> NoMessage,
                  disk |-> {}, selected |-> <<>>]
    /\ recent_files = <<>>
    /\ added = <<>>
    /\ left_running = {}

Init ==
    /\ kind \in Kinds
    /\ geocoder = "found"
    /\ files = UIFiles(kind)
    /\ InitWindow

Worker == \E t \in 1..MaxRuns + 1 : \E fail \in BOOLEAN : RunStep(t, fail)

Terminated == \E t \in 1..MaxRuns + 1 : Die(t)

Next ==
    \/ \E f \in files : LoadFile(f)
    \/ CreateAnalysisPage
    \/ \E c \in BOOLEAN : BackToHome(c)
    \/ Worker
    \/ Deliver

Spec == Init /\ [][Next]_vars

\* One file on disk: it is loaded, analysed once, and the events delivered.
InitFile ==
    /\ kind \in Kinds
    /\ geocoder \in IF kind = "MTN_CDR" THEN GeoOutcomes ELSE {"found"}
    /\ \E f \in InputFiles(kind) : files = {f}
    /\ InitWindow

NextFile ==
    \/ \E f \in files : LoadFile(f)
    \/ CreateAnalysisPage
    \/ Worker
    \/ Deliver

SpecFile == InitFile /\ [][NextFile]_vars

\* The window with start_analysis invoked again while a worker may be running.
InitRestart ==
    /\ kind \in Kinds
    /\ geocoder = "found"
    /\ files = {FullFile(kind)}
    /\ InitWindow

NextRestart ==
    \/ \E f \in files : LoadFile(f)
    \/ CreateAnalysisPage
    \/ RestartAnalysis
    \/ (Len(queue) < MaxQueue /\ Worker)
    \/ Terminated
    \/ Deliver

SpecRestart == InitRestart /\ [][NextRestart]_vars

\* The pages beside the analyzers: no analyzer has a file to load.
InitTools ==
    /\ kind = "MTN_CDR"
    /\ geocoder = "found"
    /\ files = {}
    /\ InitWindow

\* The CDR File Cleaner with files picked one after the other.
NextCleaner == \E f \in CleanerFiles : select_file(f)

SpecCleaner == InitTools /\ [][NextCleaner]_vars

\* The main window with files uploaded one after the other.
NextRecent == \E p \in Paths : add_recent_file(p)

SpecRecent == InitTools /\ [][NextRecent]_vars

-----------------------------------------------------------------------------
(* Properties of the worker's events *)

Occurrences(em, ty) == Cardinality({i \in DOMAIN em : em[i].type = ty})

TerminalEvents == {"complete", "error"}

TerminalCount(em) ==
    Occurrences(em, "complete") + Occurrences(em, "error")

\* every run that was not terminated emits at most one terminal event, exactly
\* one once run has returned, and nothing after it
OneTerminalEvent(th) ==
    LET em == th.emitted
    IN  /\ TerminalCount(em) <= 1
        /\ (th.status = "finished" => TerminalCount(em) = 1)
        /\ (TerminalCount(em) = 1 => em[Len(em)].type \in TerminalEvents)

\* C1 (amended): every run that is not terminated emits exactly one terminal
\* event and nothing after it; a run in which a step raises outside the
\* guarded time-based block emits error_occurred once and never
\* analysis_complete, and a run whose only exceptions were swallowed by that
\* block ends with analysis_complete.
C1_TerminalEvent ==
    \A t \in DOMAIN threads :
        LET th == threads[t]
            em == th.emitted
        IN  ~th.cancel =>
              /\ OneTerminalEvent(th)
              /\ (th.raised > th.caught =>
                    /\ Occurrences(em, "error") = 1
                    /\ Occurrences(em, "complete") = 0)
              /\ (th.status = "finished" /\ th.raised = th.caught
                  /\ th.df # NoDF =>
                    /\ Occurrences(em, "complete") = 1
                    /\ Occurrences(em, "error") = 0)

\* a run outside the time block raised after reporting progress, and returned
C1_Witness ==
    \E t \in DOMAIN threads :
        /\ threads[t].status = "finished"
        /\ ~threads[t].cancel
        /\ threads[t].raised > threads[t].caught
        /\ Len(threads[t].emitted) >= 3
        /\ Occurrences(threads[t].emitted, "error") = 1

\* C1 (as stated): every run that is not terminated emits exactly one terminal
\* event and nothing after it, and a run in which any step raises emits
\* error_occurred exactly once and never analysis_complete.
C1_AnyRaiseIsAnError ==
    \A t \in DOMAIN threads :
        LET th == threads[t]
            em == th.emitted
        IN  ~th.cancel =>
              /\ OneTerminalEvent(th)
              /\ (th.status = "finished" /\ th.raised > 0 =>
                    /\ Occurrences(em, "error") = 1
                    /\ Occurrences(em, "complete") = 0)

-----------------------------------------------------------------------------
(* Properties of start_analysis invoked again *)

-----------------------------------------------------------------------------
(* Properties of the progress reports *)

\* the positions of the update_progress events in em
ProgressAt(em) == {i \in DOMAIN em : em[i].type = "progress"}

\* C4: every percentage a run emits is an integer from 0 to 100, the
\* percentages never decrease, the one emitted after k increments of
\* current_step is floor(100 * k / total_steps), and every update_progress
\* comes before the run's analysis_complete.
C4_Progress ==
    \A t \in DOMAIN threads :
        LET em == threads[t].emitted
            n  == TotalSteps(kind)
        IN  \A i \in ProgressAt(em) :
              LET p == em[i].percent
                  k == Cardinality({j \in ProgressAt(em) : j < i})
              IN  /\ p \in 0..100
                  /\ p * n <= 100 * k
                  /\ 100 * k < (p + 1) * n
                  /\ \A j \in ProgressAt(em) : j < i => em[j].percent <= p
                  /\ \A j \in DOMAIN em :
                        em[j].type = "complete" => i < j

\* a run reported progress at least three times, above zero, and completed
C4_Witness ==
    \E t \in DOMAIN threads :
        LET em == threads[t].emitted
        IN  /\ Cardinality(ProgressAt(em)) >= 3
            /\ \E i \in ProgressAt(em) : em[i].percent > 0
            /\ Occurrences(em, "complete") = 1

-----------------------------------------------------------------------------
(* Properties of a run on a table without the optional columns *)

\* the artifact keys of every rendering call of the run
RenderKeys(k) == UNION {Program(k)[i].keys : i \in DOMAIN Program(k)}

\* C5: a run on a validated table that lacks a column an aggregation step
\* reads, with no other failure, skips that step and ends with
\* analysis_complete.
C5_MissingColumnSkipsStep ==
    \A t \in DOMAIN threads :
        LET th == threads[t]
        IN  ( /\ th.status = "finished"
              /\ ~th.cancel
              /\ th.df # NoDF
              /\ th.failures = 0
              /\ th.df.timeok
              /\ \E c \in OptionalColumns(kind) : ~HasColumn(th.df, c) )
            => /\ Occurrences(th.emitted, "complete") = 1
               /\ Occurrences(th.emitted, "error") = 0

\* C6: a run in which one rendering call raises still executes every other
\* rendering call and ends with analysis_complete, its visualizations holding
\* exactly the keys of the calls that did not fail.
C6_RenderFailureIsIsolated ==
    \A t \in DOMAIN threads :
        LET th == threads[t]
        IN  ( /\ th.status = "finished"
              /\ ~th.cancel
              /\ th.failures = 1
              /\ th.df.timeok
              /\ \A c \in OptionalColumns(kind) : HasColumn(th.df, c) )
            => /\ Occurrences(th.emitted, "complete") = 1
               /\ th.visualizations = RenderKeys(kind) \ th.failed

-----------------------------------------------------------------------------
(* Properties of load_file *)

\* the file of the one-file specification
TheFile == CHOOSE f \in files : TRUE

\* the required columns that are not among the loaded column names
Absent(k, f) ==
    {c \in Range(RequiredColumns(k)) : Name(c) \notin LoadedColumns(k, f)}

\* the position of column c in the required list
RequiredIndex(k, c) ==
    CHOOSE i \in DOMAIN RequiredColumns(k) : RequiredColumns(k)[i] = c

\* C7: the missing list load_file reports holds exactly the required columns
\* absent from the loaded table's column names, once each and in the order of
\* the required list, and the file is accepted if and only if none is absent.
C7_MissingColumns ==
    LET absent == Absent(kind, TheFile)
        m      == message.missing
    IN  /\ message.text = "Missing required columns" =>
              /\ absent # {}
              /\ Range(m) = absent
              /\ \A i, j \in DOMAIN m :
                    i < j => RequiredIndex(kind, m[i]) < RequiredIndex(kind, m[j])
              /\ df = NoDF
        /\ message.text = "File loaded successfully" => absent = {}
        /\ df # NoDF => (absent = {} /\ TheFile.readable)
        /\ (message.text \in {"Missing required columns",
                              "File loaded successfully"}
            /\ absent = {}) => message.text = "File loaded successfully"

\* a file lacking several required columns was rejected with all of them
C7_Witness ==
    /\ message.text = "Missing required columns"
    /\ Len(message.missing) >= 2
    /\ Cardinality(LoadedColumns(kind, TheFile)) >= 2

RejectionTexts == {"Missing required columns", "Failed to load file"}

RejectedNames == {"rejected.xlsx", "unreadable.xlsx"}

\* C8: after load_file rejected a file df is None, Analyze Data on a window
\* without a table starts no AnalysisThread and posts no event, and no run is
\* ever given a rejected file.
C8_RejectedFileNotAnalysed ==
    /\ [](message.text \in RejectionTexts => df = NoDF)
    /\ [](\A t \in DOMAIN threads : threads[t].df.file \notin RejectedNames)
    /\ [][(df = NoDF /\ CreateAnalysisPage)
            => UNCHANGED <<threads, queue, analysis_thread>>]_vars

\* a table was loaded, the next file was rejected, and Analyze Data answered
\* with the warning without a thread
C8_Witness ==
    /\ filename = "full.xlsx"
    /\ df = NoDF
    /\ message.text = "Please load a file first!"
    /\ threads = <<>>

-----------------------------------------------------------------------------
(* Properties of the AirtelTigo Cash totals *)

\* the value of the result labelled l (N/A when there is none)
ValueOf(results, l) ==
    IF \E i \in DOMAIN results : results[i].label = l
    THEN results[CHOOSE i \in DOMAIN results : results[i].label = l].value
    ELSE NA

\* C9: a run on a table with exactly the columns Paid In, Withdrawn, Balance
\* and Opposite Party ends with analysis_complete, and the results delivered
\* hold Total Deposits = the sum of Paid In and Total Withdrawals = the sum of
\* Withdrawn.
C9_FourColumnTable ==
    \A t \in DOMAIN threads :
        LET th == threads[t]
        IN  ( /\ kind = "AT_CASH"
              /\ th.status = "finished"
              /\ th.failures = 0
              /\ th.df.columns = Headers(Range(RequiredColumns("AT_CASH"))) )
            => /\ Occurrences(th.emitted, "complete") = 1
               /\ ValueOf(th.results, "Total Deposits")
                    = Money(100 * SumSeq(PaidIn(th.df.rows)))
               /\ ValueOf(th.results, "Total Withdrawals")
                    = Money(100 * SumSeq(Withdrawn(th.df.rows)))

\* the rows of col with a positive value
PositiveRows(col) == {i \in DOMAIN col : col[i] > 0}

RECURSIVE SumOver(_, _)
SumOver(col, I) ==
    IF I = {} THEN 0
    ELSE LET i == CHOOSE x \in I : TRUE IN col[i] + SumOver(col, I \ {i})

\* v is N/A when no row of col is positive, else the mean of the positive
\* rows to the nearest hundredth
IsMeanOrNA(v, col) ==
    LET I == PositiveRows(col)
        n == Cardinality(I)
        d == v.v * n - 100 * SumOver(col, I)
    IN  IF I = {} THEN v = NA
        ELSE /\ v.t = "money"
             /\ 2 * d <= n
             /\ 2 * d >= 0 - n

\* C10: once the totals step of the AirtelTigo Cash run is past, it raised
\* nothing, and Average Deposit Amount (Average Withdrawal Amount) is "N/A"
\* when no row has Paid In (Withdrawn) > 0 and otherwise the mean of those
\* rows with two decimals.
C10_Averages ==
    \A t \in DOMAIN threads :
        LET th == threads[t]
        IN  (kind = "AT_CASH" /\ th.pc > 3) =>
              /\ Len(th.results) >= 6
              /\ th.results[5].label = "Average Deposit Amount"
              /\ IsMeanOrNA(th.results[5].value, PaidIn(th.df.rows))
              /\ th.results[6].label = "Average Withdrawal Amount"
              /\ IsMeanOrNA(th.results[6].value, Withdrawn(th.df.rows))

\* a table with rows but no positive Paid In gave N/A next to a printed mean
C10_Witness ==
    \E t \in DOMAIN threads :
        LET th == threads[t]
        IN  /\ kind = "AT_CASH"
            /\ Len(th.results) >= 6
            /\ th.df.rows # <<>>
            /\ th.results[5].value = NA
            /\ th.results[6].value.t = "money"

-----------------------------------------------------------------------------
(* Properties of the means of the CDR and Mobile Money totals *)

HasLabel(results, l) == \E i \in DOMAIN results : results[i].label = l

\* C11: when every record of an AirtelTigo CDR table is an SMS, the result
\* Average Call Duration (sec) is "N/A", and when no row of a Mobile Money
\* table has an amount, Average Transaction Amount is "N/A".
C11_EmptyMeanIsNA ==
    \A t \in DOMAIN threads :
        LET th   == threads[t]
            rows == th.df.rows
        IN  /\ ( /\ kind = "AT_CDR"
                 /\ HasLabel(th.results, "Average Call Duration (sec)")
                 /\ \A i \in DOMAIN rows : rows[i].call_type = "SMS" )
               => ValueOf(th.results, "Average Call Duration (sec)") = NA
            /\ ( /\ kind = "MOMO"
                 /\ HasLabel(th.results, "Average Transaction Amount")
                 /\ \A i \in DOMAIN rows : rows[i].amount.t # "num" )
               => ValueOf(th.results, "Average Transaction Amount") = NA

-----------------------------------------------------------------------------
(* Properties of the time periods *)

\* the rows of the table whose hour lies in H
RowsAt(rows, H) == Cardinality({i \in DOMAIN rows : rows[i].hour \in H})

HoursOf(rows) == [i \in DOMAIN rows |-> rows[i].hour]

\* the run has derived the period column
PeriodsDerived(th) ==
    \E c \in {"period", "Period"} : Name(c) \in th.df.columns

\* C12: get_time_period gives Night for the hours 0..5, Morning for 6..11,
\* Afternoon for 12..17 and Evening for 18..23; the per-period counts of a
\* table are its rows counted by that label, they sum to the row count, and
\* the hours 5, 6, 23 give Night 1, Morning 1, Evening 1.
C12_TimePeriods ==
    /\ \A h \in 0..23 :
          get_time_period(h) =
             (CASE h \in 0..5   -> "Night"
                [] h \in 6..11  -> "Morning"
                [] h \in 12..17 -> "Afternoon"
                [] h \in 18..23 -> "Evening")
    /\ \A t \in DOMAIN threads :
          LET th   == threads[t]
              rows == th.df.rows
              pc   == th.period_counts
          IN  (kind \in CDRKinds /\ PeriodsDerived(th)) =>
                /\ pc["Night"] = RowsAt(rows, 0..5)
                /\ pc["Morning"] = RowsAt(rows, 6..11)
                /\ pc["Afternoon"] = RowsAt(rows, 12..17)
                /\ pc["Evening"] = RowsAt(rows, 18..23)
                /\ pc["Night"] + pc["Morning"] + pc["Afternoon"]
                     + pc["Evening"] = Len(rows)
                /\ (HoursOf(rows) = <<5, 6, 23>> =>
                      /\ pc["Night"] = 1 /\ pc["Morning"] = 1
                      /\ pc["Afternoon"] = 0 /\ pc["Evening"] = 1)

\* a run on the table with hours 5, 6, 23 has counted its periods
C12_Witness ==
    \E t \in DOMAIN threads :
        /\ kind \in CDRKinds
        /\ PeriodsDerived(threads[t])
        /\ HoursOf(threads[t].df.rows) = <<5, 6, 23>>
        /\ threads[t].period_counts["Evening"] = 1

-----------------------------------------------------------------------------
(* Properties of the top-N breakdowns *)

\* the labels the steps of the run write themselves
StepLabels(k) ==
    UNION {Range(Program(k)[i].labels) : i \in DOMAIN Program(k)}

\* the rows listed in the results under the header l
ListedUnder(k, results, l) ==
    LET i    == CHOOSE x \in DOMAIN results : results[x].label = l
        next == {j \in DOMAIN results :
                    j > i /\ results[j].label \in StepLabels(k)}
        last == IF next = {} THEN Len(results)
                ELSE (CHOOSE j \in next : \A x \in next : j <= x) - 1
    IN  SubSeq(results, i + 1, last)

RECURSIVE SumCounts(_)
SumCounts(vc) == IF vc = <<>> THEN 0 ELSE Head(vc).count + SumCounts(Tail(vc))

\* C13: every top-N breakdown in the results lists at most 5 rows, with
\* non-increasing counts, each count being the number of rows of the table
\* that carry the category; no unlisted category has a larger count than a
\* listed one, and the counts of all categories sum to the number of rows
\* when the column has no missing entry.
C13_TopN ==
    \A t \in DOMAIN threads : \A l \in TopLabels :
        LET th     == threads[t]
            col    == Counted(kind, l, th.df.rows)
            listed == ListedUnder(kind, th.results, l)
            names  == {listed[i].label : i \in DOMAIN listed}
        IN  HasLabel(th.results, l) =>
              /\ Len(listed) <= 5
              /\ \A i, j \in DOMAIN listed :
                    i < j => /\ listed[i].value.v >= listed[j].value.v
                             /\ listed[i].label # listed[j].label
              /\ \A i \in DOMAIN listed :
                    /\ listed[i].label \in Categories(col)
                    /\ listed[i].value = Count(CountOf(col, listed[i].label))
              /\ \A c \in Categories(col) \ names : \A i \in DOMAIN listed :
                    CountOf(col, c) <= listed[i].value.v
              /\ Len(listed) = 5 \/ names = Categories(col)
              /\ ("nan" \notin Range(col)
                    => SumCounts(ValueCounts(col)) = Len(col))

\* a breakdown of a table with more than five categories, of different
\* frequency, was written
C13_Witness ==
    \E t \in DOMAIN threads : \E l \in TopLabels :
        LET th     == threads[t]
            listed == ListedUnder(kind, th.results, l)
        IN  /\ HasLabel(th.results, l)
            /\ Cardinality(Categories(Counted(kind, l, th.df.rows))) > 5
            /\ Len(listed) = 5
            /\ listed[1].value.v > listed[5].value.v

-----------------------------------------------------------------------------
(* Properties of the numeric coercion *)

NumericCells(r) == <<r.paid_in, r.withdrawn, r.balance>>

\* cell c of the file became cell d of the table
Coerced(c, d) ==
    IF c.t \in {"num", "numstr"} THEN d = Num(c.v) ELSE d = Num(0)

\* C14: in the table load_file of AirtelTigo Cash keeps, every entry of Paid
\* In, Withdrawn and Balance that was numeric has its value and every other
\* entry is exactly 0, the table has as many rows as the file, and coercing the
\* table again changes nothing.
C14_Coercion ==
    (kind = "AT_CASH" /\ df # NoDF) =>
        /\ Len(df.rows) = Len(TheFile.rows)
        /\ \A i \in DOMAIN df.rows : \A c \in 1..3 :
              Coerced(NumericCells(TheFile.rows[i])[c],
                      NumericCells(df.rows[i])[c])
        /\ CoerceRows(kind, df.rows) = df.rows

\* a file with a text cell, an empty cell and a numeric string was loaded
C14_Witness ==
    /\ kind = "AT_CASH"
    /\ df # NoDF
    /\ \E i, j \in DOMAIN df.rows :
          /\ TheFile.rows[i].paid_in = Text
          /\ TheFile.rows[i].withdrawn = Blank
          /\ df.rows[i].paid_in = Num(0)
          /\ TheFile.rows[j].paid_in = NumStr(30)
          /\ df.rows[j].paid_in = Num(30)

-----------------------------------------------------------------------------
(* Properties of the column-name normalisation *)

\* the headers of the file name every required column once surrounding
\* whitespace is removed
RequiredUpToWhitespace(k, f) ==
    \A c \in Range(RequiredColumns(k)) : \E h \in f.headers : Strip(h) = Name(c)

\* C15: in every analyzer a readable file whose headers are the required
\* names up to leading and trailing whitespace is accepted by load_file.
C15_PaddedHeadersAccepted ==
    ( /\ TheFile.readable
      /\ RequiredUpToWhitespace(kind, TheFile)
      /\ message.text \in {"Missing required columns",
                           "File loaded successfully"} )
    => /\ message.text = "File loaded successfully"
       /\ df # NoDF

-----------------------------------------------------------------------------
(* Properties of the map *)

\* the records of the table at the coordinate pair p
RecordsAt(rows, p) ==
    Cardinality({i \in DOMAIN rows : <<rows[i].lat, rows[i].lon>> = p})

\* C16: the map of a CDR run is centred on a coordinate pair that no other
\* pair of the table exceeds in records, whatever the azimuths of the records.
C16_CentreIsHottestPair ==
    \A t \in DOMAIN threads :
        LET th   == threads[t]
            rows == th.df.rows
        IN  (kind \in CDRKinds /\ th.map_centre # <<>>) =>
              \A i \in DOMAIN rows :
                 RecordsAt(rows, <<rows[i].lat, rows[i].lon>>)
                    <= RecordsAt(rows, th.map_centre)

-----------------------------------------------------------------------------
(* Properties of the network graph *)

\* the calls of the table whose called number is among the GraphTopN most
\* frequent called numbers
CallsOfTopContacts(rows) == FilteredCalls(Calls(rows))

\* the nodes of the graph are the calling and called numbers of those calls
C17_Nodes ==
    \A t \in DOMAIN threads :
        LET th == threads[t]
            fc == CallsOfTopContacts(th.df.rows)
        IN  "network" \in th.visualizations =>
              th.graph.nodes = {n \in {NumberOrder[i] : i \in DOMAIN NumberOrder} :
                                  \E i \in DOMAIN fc : n \in {fc[i].calling_no,
                                                              fc[i].called_no}}

\* C17: the graph of an MTN CDR run has as nodes the calling and called numbers
\* of the calls to the GraphTopN most frequent called numbers, and every edge
\* weighs the number of those calls between its two numbers, in either direction.
C17_NetworkGraph ==
    /\ C17_Nodes
    /\ \A t \in DOMAIN threads :
        LET th == threads[t]
            fc == CallsOfTopContacts(th.df.rows)
        IN  "network" \in th.visualizations =>
              \A e \in DOMAIN th.graph.weight :
                 th.graph.weight[e] =
                    Cardinality({i \in DOMAIN fc :
                                   {fc[i].calling_no, fc[i].called_no} = e})

-----------------------------------------------------------------------------
(* Properties of the address lookups *)

\* a place whose address is in the cache was asked of the service once
C18_CachedAskedOnce ==
    \A t \in DOMAIN threads :
        \A p \in DOMAIN threads[t].geolocation_cache :
            threads[t].reverse_calls[p] = 1

\* C18: a run asks the reverse-geocoding service at most once for every
\* coordinate pair, whatever the service answered, and never for a pair whose
\* address is in the cache.
C18_OneRequestPerPair ==
    /\ C18_CachedAskedOnce
    /\ \A t \in DOMAIN threads :
          \A p \in DOMAIN threads[t].reverse_calls :
              threads[t].reverse_calls[p] <= 1

-----------------------------------------------------------------------------
(* Properties of running again *)

\* the window showed the error of a run and then loaded a valid file
LoadedAfterFailure ==
    /\ status_label = "Analysis Failed"
    /\ df # NoDF
    /\ message = Message("information", "File loaded successfully", <<>>)

\* C19: once a run has ended with an error and a valid file has been loaded
\* again, Analyze Data starts a new worker thread on the loaded table.
C19_AnalyzeAgainStartsRun ==
    LoadedAfterFailure =>
        ENABLED (/\ CreateAnalysisPage
                 /\ Len(threads') = Len(threads) + 1
                 /\ threads'[Len(threads')].df = df)

-----------------------------------------------------------------------------
(* Properties of the captured results *)

\* a step in which load_file accepts a file
LoadsNextFile == (\E f \in files : LoadFile(f)) /\ df' # NoDF

\* a step in which display_results stores the artifacts of a run
StoresResults ==
    queue # <<>> /\ Head(queue).type = "complete" /\ Deliver

\* the window holds no visualizations and no insights after the step
HoldsNoResults == visualizations' = {} /\ insights' = <<>>

\* the visualizations and insights change only when results are stored, a
\* file is loaded or the module is reset
C20_KeptUntilLoadOrReset ==
    [][ (visualizations' # visualizations \/ insights' # insights) =>
            (StoresResults \/ LoadsNextFile \/ BackToHome(TRUE)) ]_vars

\* C20: the visualizations and insights display_results stored stay as they
\* are until the next file is loaded or the module is reset, and after a load
\* of a next file or back_to_home the window holds none of them.
C20_ResultsLifetime ==
    [][ /\ (visualizations' # visualizations \/ insights' # insights) =>
              (StoresResults \/ LoadsNextFile \/ BackToHome(TRUE))
        /\ (LoadsNextFile \/ BackToHome(TRUE)) => HoldsNoResults ]_vars

-----------------------------------------------------------------------------
(* Properties of the order of the phases *)

\* thread t ran a step of its run without raising
Advances(t) ==
    /\ t \in DOMAIN threads
    /\ threads[t].status = "running"
    /\ threads'[t].pc = threads[t].pc + 1

\* the step thread t is at computes aggregation results from the table
AtAggregation(t) ==
    LET s == Program(kind)[threads[t].pc]
    IN  s.op \in {"agg", "totals"} /\ s.cols # {}

StepBefore(k, j, op) ==
    LET prog == Program(k)
        c    == {i \in 1..(j - 1) :
                    /\ prog[i].op = op
                    /\ prog[i].labels # <<>> \/ prog[i].keys # {}}
    IN  IF c = {} THEN 0 ELSE CHOOSE i \in c : \A x \in c : x <= i

-----------------------------------------------------------------------------
(* Properties of the time-based block of the cash analyzers *)

\* the step of the run of k that tests for the timestamp column
TimeBlock(k) == CHOOSE i \in DOMAIN Program(k) : Program(k)[i].op = "if_col"

RECURSIVE InsightsBefore(_, _)
\* the insights of the steps before step j of the run of k, in order
InsightsBefore(k, j) ==
    IF j <= 1 THEN <<>>
    ELSE InsightsBefore(k, j - 1) \o Program(k)[j - 1].ins

\* the number of progress events a run of k has emitted when it is at step j
ProgressBefore(k, j) ==
    Cardinality({i \in 1..(j - 1) :
                    Program(k)[i].op \in {"progress0", "progress"}})

ProgressEmitted(th) ==
    Cardinality({i \in DOMAIN th.emitted : th.emitted[i].type = "progress"})

\* the run came to the time-based block and left it without running all of
\* it: the timestamp column is absent, or a step of the block raised
TimeBlockSkipped(k, th) ==
    LET b == TimeBlock(k)
    IN  /\ th.df # NoDF
        /\ ProgressEmitted(th) >= ProgressBefore(k, b)
        /\ th.pc >= Program(k)[b].catch
        /\ \/ \A c \in Program(k)[b].cols : ~HasColumn(th.df, c)
           \/ th.raised >= 1

\* C22: a run of AirtelTigo Cash or Mobile Money whose timestamp column is
\* absent, or whose time-based block raises, emits no error and ends with the
\* completion event; the keys and insights of the part it skipped are absent,
\* and the results, artifacts and insights of the steps before the block are
\* kept and delivered as they are.
C22_TimeBlockSkipped ==
    \A t \in DOMAIN threads :
        LET th  == threads[t]
            b   == TimeBlock(kind)
            pre == InsightsBefore(kind, b)
        IN  (kind \in CashKinds /\ TimeBlockSkipped(kind, th)) =>
              /\ \A i \in DOMAIN th.emitted : th.emitted[i].type # "error"
              /\ th.status = "finished" =>
                    th.emitted[Len(th.emitted)].type = "complete"
              /\ th.failed \cap th.visualizations = {}
              /\ "Most active day" \notin Range(th.insights)
              /\ "daily" \notin th.visualizations
              /\ "Peak transaction hour" \in Range(th.insights) =>
                    "hourly" \in th.visualizations
              /\ (\A c \in Program(kind)[b].cols : ~HasColumn(th.df, c)) =>
                    /\ "hourly" \notin th.visualizations
                    /\ th.insights = pre
              /\ SubSeq(th.insights, 1, Len(pre)) = pre
              /\ \A i \in 1..(b - 1) :
                    /\ Program(kind)[i].keys \subseteq th.visualizations
                    /\ \A l \in Range(Program(kind)[i].labels) :
                          HasLabel(th.results, l)
              /\ \A q \in DOMAIN queue :
                    (queue[q].type = "complete" /\ queue[q].run = t) =>
                        /\ queue[q].results = th.results
                        /\ queue[q].visualizations = th.visualizations
                        /\ queue[q].insights = th.insights

\* a run that rendered the hourly chart, failed on the daily one and finished
C22_Witness ==
    \E t \in DOMAIN threads :
        /\ kind \in CashKinds
        /\ TimeBlockSkipped(kind, threads[t])
        /\ threads[t].status = "finished"
        /\ threads[t].failed = {"daily"}
        /\ "Peak transaction hour" \in Range(threads[t].insights)

-----------------------------------------------------------------------------
(* Properties of the CDR File Cleaner *)

\* the file the cleaner was last given is a readable Excel file whose first
\* sheet has the column event_date_time
CleanableFileSelected ==
    /\ cleaner.selected # <<>>
    /\ LET f == cleaner.selected[Len(cleaner.selected)]
       IN  f.readable /\ "event_date_time" \in f.columns

\* C23: clean_cdr_file on a readable Excel file with an event_date_time
\* column returns success after writing the cleaned Excel and CSV files next
\* to the input, the progress bar having gone through 10, 30, 50, 70, 90 and
\* 100 before it is hidden.
C23_CleanerWritesBothFiles ==
    CleanableFileSelected =>
        LET f == cleaner.selected[Len(cleaner.selected)]
        IN  /\ cleaner.success
            /\ cleaner.message.icon = "information"
            /\ {<<f.base, "_cleaned.xlsx">>, <<f.base, "_cleaned.csv">>}
                  \subseteq cleaner.disk
            /\ cleaner.bar = <<10, 30, 50, 70, 90, 100>>
            /\ ~cleaner.visible

-----------------------------------------------------------------------------
(* Properties of the recent files *)

\* the position of the last call of add_recent_file with path p (0: none)
LastAdded(p) ==
    LET at == {i \in DOMAIN added : added[i] = p}
    IN  IF at = {} THEN 0 ELSE CHOOSE i \in at : \A j \in at : j <= i

\* C30: recent_files has no path twice and at most max_recent_files paths,
\* the path added last comes first and the others follow in the order of
\* their last addition; adding a listed path again moves it to the front
\* and the list does not grow.
C30_RecentFiles ==
    LET n == Len(recent_files)
        distinct == Cardinality(Range(added))
    IN  /\ \A i, j \in 1..n : i # j => recent_files[i] # recent_files[j]
        /\ n <= max_recent_files
        /\ n = IF distinct < max_recent_files THEN distinct
               ELSE max_recent_files
        /\ added # <<>> => recent_files[1] = added[Len(added)]
        /\ \A i, j \in 1..n :
              i < j => LastAdded(recent_files[i]) > LastAdded(recent_files[j])
        /\ \A p \in Range(added) \ Range(recent_files) :
              \A i \in 1..n : LastAdded(p) < LastAdded(recent_files[i])

\* more paths than the list holds were added, and a listed path was added
\* again before the last call
C30_Witness ==
    /\ Cardinality(Range(added)) > max_recent_files
    /\ Len(added) > Cardinality(Range(added))
    /\ Len(recent_files) = max_recent_files
    /\ \E i \in 1..(Len(added) - 1) : added[i] = added[Len(added)]

-----------------------------------------------------------------------------
(* Properties of Analyze Data *)

\* C24: a window starts its analysis at most once: no sequence of Load File,
\* Analyze Data and Back to Home constructs a second AnalysisThread, and once
\* the analysis page exists Analyze Data starts none.
C24_StartsOnce ==
    /\ Len(threads) <= 1
    /\ analysis_page =>
          /\ Len(threads) = 1
          /\ ~ENABLED (CreateAnalysisPage /\ threads' # threads)

\* the window went back to home after its run and a different file is loaded
C24_Witness ==
    /\ Len(threads) = 1
    /\ widgets_deleted = "yes"
    /\ df # NoDF
    /\ df.file # threads[1].df.file

-----------------------------------------------------------------------------
(* Properties of the export button *)

\* C25: in the analyzers with an export button, whenever export is enabled
\* the tree shows the results of a run on the table of the file that is
\* loaded now.
C25_ExportOfLoadedFile ==
    (HasExportButton(kind) /\ export_enabled) =>
        /\ tree_run \in DOMAIN threads
        /\ df # NoDF
        /\ threads[tree_run].df.file = filename
        /\ threads[tree_run].df.rows = df.rows

-----------------------------------------------------------------------------
(* Properties of a reset during a run *)

\* the event loop is about to deliver the last event of a run that a
\* back_to_home reset found running
DeliversLeftRun ==
    /\ queue # <<>>
    /\ Head(queue).type \in {"complete", "error"}
    /\ Head(queue).run \in left_running

\* C26: the analysis_complete or error_occurred of a run whose thread was
\* still running (isRunning) when back_to_home reset the window is not applied:
\* its delivery leaves tree, visualizations, insights and the export button as
\* they are.
C26_LeftRunNotApplied ==
    [][ (DeliversLeftRun /\ queue' = Tail(queue)) =>
            /\ visualizations' = visualizations
            /\ insights' = insights
            /\ export_enabled' = export_enabled
            /\ tree' = tree ]_vars

-----------------------------------------------------------------------------
(* Properties of the worker's visualizations map *)

\* the keys thread t enters into its visualizations map in this step
NewKeys(t) == threads'[t].visualizations \ threads[t].visualizations

\* thread t ran a rendering call that returned without raising
Rendered(t) ==
    /\ threads[t].status = "running"
    /\ Program(kind)[threads[t].pc].op = "render"
    /\ threads'[t].raised = threads[t].raised
    /\ threads'[t].pc = threads[t].pc + 1

\* C27: a key enters the visualizations map of a worker only in a step whose
\* rendering call produces that key and returned without raising, no key
\* leaves the map, no key of a rendering call that raised is in it, and the
\* map analysis_complete carries is the map of the worker.
C27_KeyAfterRendering ==
    [][ \A t \in DOMAIN threads :
          /\ NewKeys(t) # {} =>
                /\ Rendered(t)
                /\ NewKeys(t) \subseteq Program(kind)[threads[t].pc].keys
          /\ threads[t].visualizations \subseteq threads'[t].visualizations
          /\ threads'[t].failed \cap threads'[t].visualizations = {}
          /\ \A q \in DOMAIN queue' :
                (queue'[q].type = "complete" /\ queue'[q].run = t) =>
                    queue'[q].visualizations = threads'[t].visualizations
       ]_vars

\* a run whose rendering call raised, was caught, and that went on to render
\* another artifact and to emit analysis_complete
C27_Witness ==
    \E t \in DOMAIN threads :
        /\ threads[t].failed # {}
        /\ threads[t].visualizations # {}
        /\ \E q \in DOMAIN queue :
              queue[q].type = "complete" /\ queue[q].run = t

-----------------------------------------------------------------------------
(* Properties of the last progress percentage *)

\* the percentage of the last update_progress in the signals em (-1: none)
LastPercent(em) ==
    LET p == {i \in DOMAIN em : em[i].type = "progress"}
    IN  IF p = {} THEN 0 - 1
        ELSE em[CHOOSE i \in p : \A j \in p : j <= i].percent

\* the signals of em before its analysis_complete
BeforeComplete(em) ==
    LET c == CHOOSE i \in DOMAIN em : em[i].type = "complete"
    IN  SubSeq(em, 1, c - 1)

\* the last percentage a successful run of k is said to report
SaidLastPercent(k) ==
    CASE k = "MTN_CDR" -> 26
      [] k = "AT_CDR"  -> 66
      [] k = "AT_CASH" -> 50
      [] k = "MOMO"    -> 60

\* C28: in every run that emits analysis_complete, the last percentage
\* emitted before it is below 100: 26 for MTN CDR, 66 for AirtelTigo CDR, 50
\* for AirtelTigo Cash and 60 for Mobile Money.
C28_LastPercent ==
    \A t \in DOMAIN threads :
        LET em == threads[t].emitted
        IN  Occurrences(em, "complete") > 0 =>
                /\ LastPercent(BeforeComplete(em)) < 100
                /\ LastPercent(BeforeComplete(em)) = SaidLastPercent(kind)

\* a run has emitted analysis_complete
C28_Witness ==
    \E t \in DOMAIN threads :
        /\ Occurrences(threads[t].emitted, "complete") > 0
        /\ LastPercent(BeforeComplete(threads[t].emitted)) > 0

-----------------------------------------------------------------------------
(* Properties of the contacts of AirtelTigo CDR *)

\* C29: in AirtelTigo CDR the 0 that fillna(0) puts in place of a missing
\* Outgoing or Incoming entry is in no row of the results: neither 'Top
\* Outgoing Contacts' nor 'Top Incoming Contacts' lists it as a contact.
C29_ZeroIsNoContact ==
    kind = "AT_CDR" =>
        \A t \in DOMAIN threads :
            \A i \in DOMAIN threads[t].results :
                threads[t].results[i].label # "0"

=============================================================================
